---------------------------- MODULE Spec2Model ----------------------------
(***************************************************************************)
(* Model of the JD Boundary Uploader editing panel                         *)
(* (feature_table_dialog.py: FeatureTableDialog and MetadataDialog).       *)
(*                                                                         *)
(* Texts are sequences of one-character strings, so that strip(), join()   *)
(* and truthiness are computed as Python computes them.  The working layer *)
(* is the sequence of its features in ascending feature id, which is the   *)
(* order in which the memory provider iterates them.  A geometry is a set  *)
(* of unit cells on a line (cell i touches cell i+1) with its WKB kind and *)
(* its multi-type flag; combine() is the union of the cells.               *)
(***************************************************************************)
EXTENDS Integers, Sequences, FiniteSets, TLC

(***************************************************************************)
(* Bounds of the model                                                     *)
(***************************************************************************)
\* features in an imported shapefile
MaxFeatures == 3
\* feature ids handed out after the import (by merges and undos) before the model stops
MaxNewFids == 4
\* cells the user types into, over the whole run
MaxEdits == 3
\* handlers run in a session of the whole panel
MaxSteps == 6

(***************************************************************************)
(* Texts                                                                   *)
(***************************************************************************)
\* the empty string ""
E == <<>>

\* the host's NULL attribute value (falsy in Python, not a str)
Null == <<"NULL">>

\* characters in code point order
CharOrder == <<" ", "-", "A", "B", "a", "b", "c", "d", "g", "h">>

Ord(ch) == CHOOSE i \in 1..Len(CharOrder) : CharOrder[i] = ch

\* bool(x) of a str or NULL
Truthy(s) == s # Null /\ s # E

\* x or ""
OrEmpty(s) == IF Truthy(s) THEN s ELSE E

IsSpace(ch) == ch = " "

RECURSIVE LStrip(_)
LStrip(s) == IF s # E /\ IsSpace(Head(s)) THEN LStrip(Tail(s)) ELSE s

RECURSIVE RStrip(_)
RStrip(s) ==
    IF s # E /\ IsSpace(s[Len(s)]) THEN RStrip(SubSeq(s, 1, Len(s) - 1)) ELSE s

\* str.strip()
Strip(s) == RStrip(LStrip(s))

\* sep.join(parts)
RECURSIVE Join(_, _)
Join(sep, parts) ==
    IF parts = <<>> THEN E
    ELSE IF Len(parts) = 1 THEN parts[1]
    ELSE parts[1] \o sep \o Join(sep, Tail(parts))

(***************************************************************************)
(* Geometries                                                              *)
(***************************************************************************)
\* the cells form one connected part
Contiguous(cells) ==
    \A a \in cells, b \in cells : \A c \in a..b : c \in cells

Geom(kind, cells, multi) == [kind |-> kind, cells |-> cells, multi |-> multi]

\* QgsGeometry.combine: the union, in the simplest type that holds it
Combine(g1, g2) ==
    LET cells == g1.cells \cup g2.cells
        kind == IF g1.kind = g2.kind THEN g1.kind ELSE "Collection"
    IN  Geom(kind, cells,
             IF kind = "Polygon" THEN ~Contiguous(cells) ELSE Cardinality(cells) > 1)

\* the POLYGONTYP tag computed from a geometry's WKB type
PolyType(geom) ==
    IF geom.kind = "Polygon" THEN (IF geom.multi THEN 2 ELSE 1) ELSE 0

(***************************************************************************)
(* Features and layers                                                     *)
(***************************************************************************)
Feature(id, client, farm, field, ptype, group, geom) ==
    [id |-> id, CLIENT_NAME |-> client, FARM_NAME |-> farm, FIELD_NAME |-> field,
     POLYGONTYP |-> ptype, GROUPE |-> group, geom |-> geom]

\* a feature without its id: what a clone carries
Attrs(f) ==
    [CLIENT_NAME |-> f.CLIENT_NAME, FARM_NAME |-> f.FARM_NAME,
     FIELD_NAME |-> f.FIELD_NAME, POLYGONTYP |-> f.POLYGONTYP,
     GROUPE |-> f.GROUPE, geom |-> f.geom]

clone_feature_NoGeometry(feat) == [Attrs(feat) EXCEPT !.geom = Geom(feat.geom.kind, {}, FALSE)]

clone_feature(feat) == Attrs(feat)

Ids(lay) == {lay[i].id : i \in 1..Len(lay)}

\* provider.addFeatures: each feature gets the provider's next id
RECURSIVE AddFeatures(_, _, _)
AddFeatures(lay, feats, next) ==
    IF feats = <<>> THEN lay
    ELSE AddFeatures(
            Append(lay, Feature(next, Head(feats).CLIENT_NAME, Head(feats).FARM_NAME,
                                Head(feats).FIELD_NAME, Head(feats).POLYGONTYP,
                                Head(feats).GROUPE, Head(feats).geom)),
            Tail(feats), next + 1)

\* layer.deleteFeatures(fids) followed by commitChanges
DeleteFeatures(lay, fids) == SelectSeq(lay, LAMBDA f : f.id \notin fids)

\* the multiset of the features of a layer, ids left out
RECURSIVE CountOf(_, _)
CountOf(lay, a) ==
    IF lay = <<>> THEN 0
    ELSE (IF Attrs(Head(lay)) = a THEN 1 ELSE 0) + CountOf(Tail(lay), a)

SameFeatures(lay1, lay2) ==
    /\ Len(lay1) = Len(lay2)
    /\ \A i \in 1..Len(lay1) : CountOf(lay1, Attrs(lay1[i])) = CountOf(lay2, Attrs(lay1[i]))

(***************************************************************************)
(* Input archives                                                          *)
(***************************************************************************)
\* the NOPAR attribute of the i-th feature of an input shapefile
NoparOf(i) ==
    CASE i % 3 = 1 -> <<"B">>
      [] i % 3 = 2 -> <<"A">>
      [] OTHER -> Null

\* a ZIP the user can pick: whether it holds a .shp, whether OGR can open it,
\* and the layer in it: n features of one geometry kind, with or without a
\* NOPAR field; feature i lies on cell 1 + (i-1)*step, so that neighbours
\* touch when step is 1; its first geometry is single-part but of a multi
\* type when multiFirst
Zip(shp, valid, kind, nopar, n, step, multiFirst) ==
    [picked |-> TRUE, shp |-> shp, valid |-> valid, kind |-> kind, nopar |-> nopar,
     n |-> n, step |-> step, multiFirst |-> multiFirst]

\* a layer OGR opens
Shapefile(kind, nopar, n, step, multiFirst) == Zip(TRUE, TRUE, kind, nopar, n, step, multiFirst)

\* the file dialog was cancelled: getOpenFileName returned ""
NoZip == [Zip(FALSE, FALSE, "Polygon", FALSE, 0, 1, FALSE) EXCEPT !.picked = FALSE]

BadZips ==
    {Zip(FALSE, FALSE, "Polygon", FALSE, 0, 1, FALSE),
     Zip(TRUE, FALSE, "Polygon", FALSE, 0, 1, FALSE)}

\* the features of orig_layer, in iteration order
OrigFeatures(zip) ==
    [i \in 1..zip.n |->
        [geom |-> Geom(zip.kind, {1 + (i - 1) * zip.step}, zip.multiFirst /\ i = 1),
         hasNopar |-> zip.nopar,
         NOPAR |-> NoparOf(i)]]

ImportFeature_NoNopar(feat) ==
    [CLIENT_NAME |-> E, FARM_NAME |-> E, FIELD_NAME |-> E,
     POLYGONTYP |-> PolyType(feat.geom), GROUPE |-> E, geom |-> feat.geom]

\* the feature the import loop builds from one input feature
ImportFeature(feat) ==
    [CLIENT_NAME |-> E, FARM_NAME |-> E,
     FIELD_NAME |-> IF feat.hasNopar THEN feat.NOPAR ELSE E,
     POLYGONTYP |-> PolyType(feat.geom),
     GROUPE |-> E,
     geom |-> feat.geom]

\* the memory layer filled by the import loop; a new provider numbers from 1
ImportLayer(zip) ==
    LET orig == OrigFeatures(zip)
    IN  AddFeatures(<<>>, [i \in 1..Len(orig) |-> ImportFeature(orig[i])], 1)

(***************************************************************************)
(* State                                                                   *)
(***************************************************************************)
VARIABLES
    dlg,              \* "unbuilt", "ready", or "raised": __init__ raised
    layerRef,         \* self.layer: "unset", "live", or "deleted" (removed from the project)
    layer,            \* the features of self.layer, ascending id
    nextFid,          \* the provider's next feature id
    layerName,        \* the layer's name
    layerSel,         \* the ids of the features selected on the layer
    rows,             \* the table: one record of four cell texts per row
    feat_ids,         \* self.feat_ids
    tableSel,         \* the selected table rows, in selection order
    sigBlocked,       \* table.signalsBlocked()
    lastMergeBackup,  \* self.lastMergeBackup: None, or the list of clones in feats
    btnNewProcess,    \* btnNewProcess.isEnabled()
    exported_shp_path,\* self.exported_shp_path, when the attribute is set
    fs,               \* the files that exist in the export directories
    jsons,            \* the content of each metadata file written
    lastExport,       \* what the last exportData call wrote, in order, and its ZIP
    msgs,             \* the message boxes the last handler showed, in order
    exc,              \* the exception the last handler raised, or ""
    lastOp,           \* the handler that ran last
    snap,             \* the layer as the last mergeGroups saw it after its saveEdits
    edits,            \* cells typed into so far
    project,          \* the working layers in the project, each by its number
    layerGen,         \* the number of the layer self.layer was last assigned, 0 before
    pluginIsActive,   \* JDOperationsCenterUploader.pluginIsActive
    dockwidget,       \* JDOperationsCenterUploader.dockwidget: "None" or "widget"
    dockWidgets,      \* the dock widgets whose construction was begun
    dockShown,        \* the dock widget is shown in the main window
    steps,            \* handlers run so far, counted in sessions of the whole panel
    parameters,       \* plugin_upload.py: the options main is called with
    address,          \* plugin_upload.py: the address main builds
    printed           \* plugin_upload.py: the lines main has printed, in order

layerVars == <<layerRef, layer, nextFid, layerName, layerSel>>
tableVars == <<rows, feat_ids, tableSel, sigBlocked>>
exportVars == <<exported_shp_path, fs, jsons, lastExport>>
dockVars == <<dockwidget, dockWidgets, dockShown>>
hostVars == <<project, layerGen, pluginIsActive, dockVars>>

uploadVars == <<parameters, address, printed>>

panelVars == <<dlg, layerVars, tableVars, lastMergeBackup, btnNewProcess, exportVars,
               msgs, exc, lastOp, snap, edits, hostVars, steps>>

vars == <<panelVars, uploadVars>>

\* the cap on feature ids
FidCap == MaxFeatures + MaxNewFids

\* self.lastMergeBackup = None
NoBackup == [some |-> FALSE, feats |-> <<>>]

Backup(feats) == [some |-> TRUE, feats |-> feats]

\* bool(self.lastMergeBackup): None and the empty list are falsy
BackupTruthy(b) == b.some /\ b.feats # <<>>

Row(client, farm, field, group) ==
    [CLIENT_NAME |-> client, FARM_NAME |-> farm, FIELD_NAME |-> field, GROUPE |-> group]

Columns == {"CLIENT_NAME", "FARM_NAME", "FIELD_NAME", "GROUPE"}

\* loadTable: the rows and feat_ids built from the layer.  Rows are kept in the
\* order loadTable fills them: the table widget's own sorting is left out.
LoadRows(lay) ==
    [i \in 1..Len(lay) |->
        Row(OrEmpty(lay[i].CLIENT_NAME), OrEmpty(lay[i].FARM_NAME),
            OrEmpty(lay[i].FIELD_NAME), OrEmpty(lay[i].GROUPE))]

LoadIds(lay) == [i \in 1..Len(lay) |-> lay[i].id]

\* hasattr(self, "exported_shp_path") is False
NoPath == [set |-> FALSE, dir |-> "", base |-> ""]

\* the path dir/base.shp
ShpPath(dir, base) == [set |-> TRUE, dir |-> dir, base |-> base]

NoExport == [events |-> <<>>, zip |-> {}, zipped |-> FALSE, written |-> <<>>]

\* the options of the upload script, which the plugin never runs
NoParameters == [username |-> E, password |-> E, server |-> E, port |-> E]

\* the plugin before its first activation
InitPanel ==
    /\ dlg = "unbuilt"
    /\ layerRef = "unset"
    /\ layer = <<>>
    /\ nextFid = 1
    /\ layerName = ""
    /\ layerSel = {}
    /\ rows = <<>>
    /\ feat_ids = <<>>
    /\ tableSel = <<>>
    /\ sigBlocked = FALSE
    /\ lastMergeBackup = NoBackup
    /\ btnNewProcess = FALSE
    /\ exported_shp_path = NoPath
    /\ fs = {}
    /\ jsons = <<>>
    /\ lastExport = NoExport
    /\ msgs = <<>>
    /\ exc = ""
    /\ lastOp = ""
    /\ snap = <<>>
    /\ edits = 0
    /\ project = {}
    /\ layerGen = 0
    /\ pluginIsActive = FALSE
    /\ dockwidget = "None"
    /\ dockWidgets = 0
    /\ dockShown = FALSE
    /\ steps = 0

Init ==
    /\ InitPanel
    /\ parameters = NoParameters
    /\ address = E
    /\ printed = <<>>

(***************************************************************************)
(* Construction                                                            *)
(***************************************************************************)
\* what _extractZipAndCreateLayer reports when it gives up, "" when it goes on
ExtractError(zip) ==
    IF ~zip.picked THEN "critical: No ZIP file selected."
    ELSE IF ~zip.shp THEN "critical: No .shp file found in ZIP."
    ELSE IF ~zip.valid THEN "critical: The extracted layer is not valid."
    ELSE ""

\* what __init__ does after _extractZipAndCreateLayer returned without a layer:
\* zoomToWorkingLayer(self.layer) reads an attribute that was never set
AfterFailedExtract ==
    [dlg |-> "raised", exc |-> "AttributeError: layer @ zoomToWorkingLayer"]

\* QgsProject.addMapLayer
AddMapLayer(proj, gen) == proj \cup {gen}

RemoveMapLayer_Kept(proj, gen) == proj

\* QgsProject.removeMapLayer, run only for a layer that is in the project
RemoveMapLayer(proj, gen) == proj \ {gen}

\* FeatureTableDialog.__init__ with the file the user picks
Construct(zip) ==
    /\ dlg = "unbuilt"
    /\ lastOp' = "__init__"
    /\ lastMergeBackup' = NoBackup
    /\ IF ExtractError(zip) # ""
       THEN /\ msgs' = <<ExtractError(zip)>>
            /\ exc' = AfterFailedExtract.exc
            /\ dlg' = AfterFailedExtract.dlg
            \* the exception leaves run before self.dockwidget is assigned
            /\ UNCHANGED <<layerVars, tableVars, btnNewProcess, project, layerGen,
                           dockwidget, dockShown>>
       ELSE /\ msgs' = <<>>
            /\ exc' = ""
            /\ dlg' = "ready"
            /\ layerRef' = "live"
            /\ layerGen' = layerGen + 1
            /\ project' = AddMapLayer(project, layerGen')
            /\ layer' = ImportLayer(zip)
            /\ nextFid' = zip.n + 1
            /\ layerName' = "Working Layer"
            /\ layerSel' = {}
            /\ rows' = LoadRows(layer')
            /\ feat_ids' = LoadIds(layer')
            /\ tableSel' = <<>>
            /\ sigBlocked' = FALSE
            /\ btnNewProcess' = FALSE
            /\ dockwidget' = "widget"
            /\ dockShown' = TRUE
    \* run sets pluginIsActive before it creates the dock widget
    /\ pluginIsActive' = TRUE
    /\ dockWidgets' = dockWidgets + 1
    /\ UNCHANGED <<exportVars, snap, edits>>

(***************************************************************************)
(* Table editing and saveEdits                                             *)
(***************************************************************************)
\* the user types a text into one cell
EditCell(r, col, text) ==
    /\ dlg = "ready"
    /\ edits < MaxEdits
    /\ r \in 1..Len(rows)
    /\ rows[r][col] # text
    /\ rows' = [rows EXCEPT ![r][col] = text]
    /\ edits' = edits + 1
    /\ lastOp' = "editCell"
    /\ msgs' = <<>>
    /\ exc' = ""
    /\ UNCHANGED <<hostVars, dlg, layerVars, feat_ids, tableSel, sigBlocked, lastMergeBackup,
                   btnNewProcess, exportVars, snap>>

SavedFeature_NoGroup(f, tbl, ids) ==
    IF \E i \in 1..Len(ids) : ids[i] = f.id
    THEN LET i == CHOOSE j \in 1..Len(ids) : ids[j] = f.id
         IN  [f EXCEPT !.CLIENT_NAME = tbl[i].CLIENT_NAME,
                       !.FARM_NAME = tbl[i].FARM_NAME,
                       !.FIELD_NAME = tbl[i].FIELD_NAME]
    ELSE f

\* the feature after saveEdits: the rows whose feat_id is the feature's id write
\* their four texts in turn (the last one stays); a feature no row names is
\* left as it is
SavedFeature(f, tbl, ids) ==
    IF \E i \in 1..Len(ids) : ids[i] = f.id
    THEN LET i == CHOOSE j \in 1..Len(ids) :
                    ids[j] = f.id /\ \A k \in 1..Len(ids) : ids[k] = f.id => k <= j
         IN  [f EXCEPT !.CLIENT_NAME = tbl[i].CLIENT_NAME,
                       !.FARM_NAME = tbl[i].FARM_NAME,
                       !.FIELD_NAME = tbl[i].FIELD_NAME,
                       !.GROUPE = tbl[i].GROUPE]
    ELSE f

\* the layer after saveEdits
SaveEditsLayer(lay, tbl, ids) == [i \in 1..Len(lay) |-> SavedFeature(lay[i], tbl, ids)]

\* a handler that touches self.layer after the layer was removed from the project
DeletedLayerError == "RuntimeError: wrapped C/C++ object of type QgsVectorLayer has been deleted"

saveEdits ==
    /\ dlg = "ready"
    /\ lastOp' = "saveEdits"
    /\ msgs' = <<>>
    /\ IF layerRef = "live"
       THEN /\ layer' = SaveEditsLayer(layer, rows, feat_ids)
            /\ exc' = ""
       ELSE /\ exc' = DeletedLayerError
            /\ UNCHANGED layer
    /\ UNCHANGED <<hostVars, dlg, layerRef, nextFid, layerName, layerSel, tableVars, lastMergeBackup,
                   btnNewProcess, exportVars, snap, edits>>

(***************************************************************************)
(* Selection                                                               *)
(***************************************************************************)
\* the rows whose feat_id is in a set of ids, ascending
RowsOf(ids, fids) == SelectSeq([i \in 1..Len(ids) |-> i], LAMBDA i : ids[i] \in fids)

\* MultiSelection mode: a click toggles the row
Toggle(sel, r) ==
    IF \E i \in 1..Len(sel) : sel[i] = r
    THEN SelectSeq(sel, LAMBDA x : x # r)
    ELSE Append(sel, r)

\* highlightFeature on a live layer, with the table's selection sel: the layer
\* selection it leaves, and the table selection that onMapSelectionChanged
\* writes back for each selectionChanged the layer emits
HighlightLayerSel(sel, ids) == IF sel = <<>> THEN {} ELSE {ids[sel[1]]}

HighlightTableSel(sel, ids) == IF sel = <<>> THEN <<>> ELSE RowsOf(ids, {ids[sel[1]]})

\* the user clicks a table row: itemSelectionChanged runs highlightFeature
TableClick(r) ==
    /\ dlg = "ready"
    /\ r \in 1..Len(rows)
    \* with the table's signals blocked the click changes the selection only
    /\ lastOp' = IF sigBlocked THEN "tableClick" ELSE "highlightFeature"
    /\ msgs' = <<>>
    /\ LET sel == Toggle(tableSel, r)
       IN  IF sigBlocked
           THEN /\ tableSel' = sel
                /\ exc' = ""
                /\ UNCHANGED <<layerSel, sigBlocked>>
           ELSE IF layerRef # "live"
           THEN \* raises after table.blockSignals(True)
                /\ tableSel' = sel
                /\ sigBlocked' = TRUE
                /\ exc' = DeletedLayerError
                /\ UNCHANGED layerSel
           ELSE /\ layerSel' = HighlightLayerSel(sel, feat_ids)
                /\ tableSel' = HighlightTableSel(sel, feat_ids)
                /\ sigBlocked' = FALSE
                /\ exc' = ""
    /\ UNCHANGED <<hostVars, dlg, layerRef, layer, nextFid, layerName, rows, feat_ids,
                   lastMergeBackup, btnNewProcess, exportVars, snap, edits>>

\* the user selects features on the map: selectionChanged runs onMapSelectionChanged
MapSelect(fids) ==
    /\ dlg = "ready"
    /\ layerRef = "live"
    /\ fids \subseteq Ids(layer)
    /\ fids # layerSel
    /\ layerSel' = fids
    /\ tableSel' = RowsOf(feat_ids, fids)
    /\ sigBlocked' = FALSE
    /\ lastOp' = "onMapSelectionChanged"
    /\ msgs' = <<>>
    /\ exc' = ""
    /\ UNCHANGED <<hostVars, dlg, layerRef, layer, nextFid, layerName, rows, feat_ids,
                   lastMergeBackup, btnNewProcess, exportVars, snap, edits>>

\* features are added to or taken from the layer's selection one at a time
\* (QgsVectorLayer.select and deselect, as the host's own attribute table does
\* on a Ctrl+click): selectionChanged carries the newly selected ids only
LayerToggle(fid) ==
    /\ dlg = "ready"
    /\ layerRef = "live"
    /\ fid \in Ids(layer)
    /\ layerSel' = IF fid \in layerSel THEN layerSel \ {fid} ELSE layerSel \cup {fid}
    /\ LET selected == IF fid \in layerSel THEN {} ELSE {fid}
       IN  tableSel' = RowsOf(feat_ids, selected)
    /\ sigBlocked' = FALSE
    /\ lastOp' = "onMapSelectionChanged"
    /\ msgs' = <<>>
    /\ exc' = ""
    /\ UNCHANGED <<hostVars, dlg, layerRef, layer, nextFid, layerName, rows, feat_ids,
                   lastMergeBackup, btnNewProcess, exportVars, snap, edits>>

\* refreshTable: setRowCount(0) drops the selected rows, which (signals not
\* blocked) runs highlightFeature with nothing selected
RefreshLayerSel(sel, blocked, lsel) == IF sel # <<>> /\ ~blocked THEN {} ELSE lsel

(***************************************************************************)
(* applyGlobalValues and assignGroup                                       *)
(***************************************************************************)
TargetRows_All(sel, n) == 1..n

\* the rows a handler writes: the selected rows, or every row when none is
TargetRows(sel, n) == IF sel = <<>> THEN 1..n ELSE {sel[i] : i \in 1..Len(sel)}

GlobalRows(tbl, sel, client, farm) ==
    [i \in 1..Len(tbl) |->
        IF i \in TargetRows(sel, Len(tbl))
        THEN [tbl[i] EXCEPT !.CLIENT_NAME = client, !.FARM_NAME = farm]
        ELSE tbl[i]]

\* applyGlobalValues with the texts of the two global line edits
applyGlobalValues(client, farm) ==
    /\ dlg = "ready"
    /\ lastOp' = "applyGlobalValues"
    /\ msgs' = <<>>
    /\ rows' = GlobalRows(rows, tableSel, client, farm)
    /\ IF layerRef = "live"
       THEN /\ layer' = SaveEditsLayer(layer, rows', feat_ids)
            /\ exc' = ""
       ELSE /\ exc' = DeletedLayerError
            /\ UNCHANGED layer
    /\ UNCHANGED <<hostVars, dlg, layerRef, nextFid, layerName, layerSel, feat_ids, tableSel,
                   sigBlocked, lastMergeBackup, btnNewProcess, exportVars, snap, edits>>

GroupRows_All(tbl, sel, name) == [i \in 1..Len(tbl) |-> [tbl[i] EXCEPT !.GROUPE = name]]

\* the table after assignGroup has written the name to the selected rows
GroupRows(tbl, sel, name) ==
    [i \in 1..Len(tbl) |->
        IF \E k \in 1..Len(sel) : sel[k] = i
        THEN [tbl[i] EXCEPT !.GROUPE = name]
        ELSE tbl[i]]

\* assignGroup with what the input dialog returns
assignGroup(name, ok) ==
    /\ dlg = "ready"
    /\ lastOp' = "assignGroup"
    /\ IF ~ok \/ name = E
       THEN /\ msgs' = <<>>
            /\ exc' = ""
            /\ UNCHANGED <<rows, layer>>
       ELSE IF tableSel = <<>>
       THEN /\ msgs' = <<"information: No rows selected.">>
            /\ exc' = ""
            /\ UNCHANGED <<rows, layer>>
       ELSE /\ msgs' = <<>>
            /\ rows' = GroupRows(rows, tableSel, name)
            /\ IF layerRef = "live"
               THEN /\ layer' = SaveEditsLayer(layer, rows', feat_ids)
                    /\ exc' = ""
               ELSE /\ exc' = DeletedLayerError
                    /\ UNCHANGED layer
    /\ UNCHANGED <<hostVars, dlg, layerRef, nextFid, layerName, layerSel, feat_ids, tableSel,
                   sigBlocked, lastMergeBackup, btnNewProcess, exportVars, snap, edits>>

(***************************************************************************)
(* mergeGroups and undoMerge                                               *)
(***************************************************************************)
\* the key mergeGroups files a feature under: (GROUPE or "").strip()
GroupKey(f) == Strip(OrEmpty(f.GROUPE))

\* the keys of the groups dictionary, in insertion order
RECURSIVE GroupOrder(_, _)
GroupOrder(feats, seen) ==
    IF feats = <<>> THEN seen
    ELSE LET g == GroupKey(Head(feats))
         IN  IF g # E /\ \A i \in 1..Len(seen) : seen[i] # g
             THEN GroupOrder(Tail(feats), Append(seen, g))
             ELSE GroupOrder(Tail(feats), seen)

\* groups[g]: the features filed under g, in iteration order
Members(feats, g) == SelectSeq(feats, LAMBDA f : GroupKey(f) = g)

\* the geometry of feats[0] combined with each of feats[1:] in turn
RECURSIVE CombineAll(_, _)
CombineAll(geom, feats) ==
    IF feats = <<>> THEN geom
    ELSE CombineAll(Combine(geom, Head(feats).geom), Tail(feats))

MergedGeom_FirstOnly(feats) == feats[1].geom

\* merged_geom
MergedGeom(feats) == CombineAll(feats[1].geom, Tail(feats))

\* the FIELD_NAME values that are truthy, in the order of feats
FieldNames(feats) ==
    LET kept == SelectSeq(feats, LAMBDA f : Truthy(f.FIELD_NAME))
    IN  [i \in 1..Len(kept) |-> kept[i].FIELD_NAME]

MergedFieldNames(feats) == Join(<<"-">>, FieldNames(feats))

MergedOwner_Last(feats) == feats[Len(feats)]

\* whose client and farm the merged feature takes
MergedOwner(feats) == feats[1]

MergedPolyType_OfFirst(feats, merged_geom) == feats[1].POLYGONTYP

\* new_poly_type
MergedPolyType(feats, merged_geom) == PolyType(merged_geom)

\* new_attrs and the merged geometry of one group
MergedFeature(group, feats) ==
    LET merged_geom == MergedGeom(feats)
    IN  [CLIENT_NAME |-> MergedOwner(feats).CLIENT_NAME,
         FARM_NAME |-> MergedOwner(feats).FARM_NAME,
         FIELD_NAME |-> MergedFieldNames(feats),
         POLYGONTYP |-> MergedPolyType(feats, merged_geom),
         GROUPE |-> group,
         geom |-> merged_geom]

Skipped_OnlyEmpty(feats) == Len(feats) < 1

\* the groups the loop passes over: len(feats) < 2
Skipped(feats) == Len(feats) < 2

\* the loop over groups.items(): each group of two or more is deleted and
\* replaced by its merged feature, which takes the provider's next id
RECURSIVE MergeLoop(_, _, _, _)
MergeLoop(gs, feats, lay, next) ==
    IF gs = <<>> THEN [layer |-> lay, next |-> next]
    ELSE LET members == Members(feats, Head(gs))
         IN  IF Skipped(members)
             THEN MergeLoop(Tail(gs), feats, lay, next)
             ELSE MergeLoop(Tail(gs), feats,
                            AddFeatures(DeleteFeatures(lay, Ids(members)),
                                        <<MergedFeature(Head(gs), members)>>, next),
                            next + 1)

\* the list of clones mergeGroups keeps
TakeBackup(lay) == Backup([i \in 1..Len(lay) |-> clone_feature(lay[i])])

mergeGroups ==
    /\ dlg = "ready"
    /\ lastOp' = "mergeGroups"
    /\ IF layerRef = "live"
       THEN LET saved == SaveEditsLayer(layer, rows, feat_ids)
                res == MergeLoop(GroupOrder(saved, <<>>), saved, saved, nextFid)
            IN  /\ res.next <= FidCap + 1
                /\ lastMergeBackup' = TakeBackup(saved)
                /\ snap' = saved
                /\ layer' = res.layer
                /\ nextFid' = res.next
                /\ layerSel' = RefreshLayerSel(tableSel, sigBlocked, layerSel \cap Ids(res.layer))
                /\ rows' = LoadRows(layer')
                /\ feat_ids' = LoadIds(layer')
                /\ tableSel' = <<>>
                /\ msgs' = <<"information: Groups merged.">>
                /\ exc' = ""
       ELSE /\ exc' = DeletedLayerError
            /\ msgs' = <<>>
            /\ UNCHANGED <<layer, nextFid, layerSel, rows, feat_ids, tableSel,
                           lastMergeBackup, snap>>
    /\ UNCHANGED <<hostVars, dlg, layerRef, layerName, sigBlocked, btnNewProcess, exportVars, edits>>

Replies == {"Yes", "No"}

\* the features undoMerge hands to the provider
RestoredFeatures(b) == b.feats

AfterUndo_Kept(b) == b

\* what undoMerge leaves in self.lastMergeBackup after a confirmed undo
AfterUndo(b) == NoBackup

undoMerge(reply) ==
    /\ dlg = "ready"
    /\ lastOp' = "undoMerge"
    /\ IF BackupTruthy(lastMergeBackup)
       THEN IF reply = "Yes"
            THEN IF layerRef = "live"
                 THEN /\ nextFid + Len(lastMergeBackup.feats) <= FidCap + 1
                      /\ layer' = AddFeatures(DeleteFeatures(layer, Ids(layer)),
                                              RestoredFeatures(lastMergeBackup), nextFid)
                      /\ nextFid' = nextFid + Len(lastMergeBackup.feats)
                      /\ layerSel' = {}
                      /\ rows' = LoadRows(layer')
                      /\ feat_ids' = LoadIds(layer')
                      /\ tableSel' = <<>>
                      /\ msgs' = <<"question: Confirm Undo", "information: Last merge undone.">>
                      /\ lastMergeBackup' = AfterUndo(lastMergeBackup)
                      /\ exc' = ""
                 ELSE /\ msgs' = <<"question: Confirm Undo">>
                      /\ exc' = DeletedLayerError
                      /\ UNCHANGED <<layer, nextFid, layerSel, rows, feat_ids, tableSel,
                                     lastMergeBackup>>
            ELSE /\ msgs' = <<"question: Confirm Undo">>
                 /\ exc' = ""
                 /\ UNCHANGED <<layer, nextFid, layerSel, rows, feat_ids, tableSel,
                                lastMergeBackup>>
       ELSE /\ reply = "Yes"
            /\ msgs' = <<"information: No merge to undo.">>
            /\ exc' = ""
            /\ UNCHANGED <<layer, nextFid, layerSel, rows, feat_ids, tableSel,
                           lastMergeBackup>>
    /\ UNCHANGED <<hostVars, dlg, layerRef, layerName, sigBlocked, btnNewProcess, exportVars,
                   snap, edits>>

(***************************************************************************)
(* exportData and terminateAndClearGroup                                   *)
(***************************************************************************)
\* a file of an export directory: dir/base + suffix
File(dir, base, suffix) == <<dir, base, suffix>>

\* os.path.basename of a file
Basename(file) == <<file[2], file[3]>>

\* the files writeAsVectorFormat leaves for dir/base.shp; the .prj only when
\* the host can write the CRS
WrittenSuffixes(prj) == {".shp", ".shx", ".dbf", ".cpg"} \cup (IF prj THEN {".prj"} ELSE {})

ZipExts_WithCpg == {".shp", ".shx", ".dbf", ".prj", ".cpg"}

\* the extensions exportData looks for when it fills the ZIP
ZipExts == {".shp", ".shx", ".dbf", ".prj"}

JsonSuffix == "-Deere-Metadata.json"

\* the distinct truthy values of one attribute over the layer
ValuesOf(lay, col) == {lay[i][col] : i \in {k \in 1..Len(lay) : Truthy(lay[k][col])}}

\* default_client / default_farm: the value when there is exactly one, else ""
DefaultOf(lay, col) ==
    IF Cardinality(ValuesOf(lay, col)) = 1
    THEN CHOOSE v \in ValuesOf(lay, col) : TRUE
    ELSE E

\* the user leaves a line edit of the metadata dialog as it was filled
Keep == <<"KEEP">>

FinalText(typed, default) == IF typed = Keep THEN default ELSE typed

MetaValid_NoStrip(client, farm) == client # E /\ farm # E

\* MetadataDialog.validateAndAccept: both texts non-blank after strip()
MetaValid(client, farm) == Strip(client) # E /\ Strip(farm) # E

Metadata_NoType(global_client, global_farm) ==
    [Version |-> "1.0", ClientName |-> global_client, FarmName |-> global_farm]

\* the metadata dictionary
Metadata(global_client, global_farm) ==
    [Version |-> "1.0", ClientName |-> global_client, FarmName |-> global_farm,
     ShapeDataType |-> "Boundary"]

\* what the user does in exportData's dialogs: the shapefile path picked (or
\* none), whether the writer succeeds and writes a .prj, the texts left in
\* the metadata dialog and whether it is ended with Next or closed, and
\* whether a ZIP path is picked
ExportInput(shp, writerOk, prj, client, farm, next, zip) ==
    [shp |-> shp, writerOk |-> writerOk, prj |-> prj, client |-> client, farm |-> farm,
     next |-> next, zip |-> zip]

ExportedPath_BeforeCheck(inp, oldPath) == IF inp.shp.set THEN inp.shp ELSE oldPath

\* self.exported_shp_path after exportData: set only once the writer has
\* returned NoError
ExportedPath(inp, oldPath) == IF inp.shp.set /\ inp.writerOk THEN inp.shp ELSE oldPath

\* exportData on the layer lay: the new exported_shp_path, files, metadata
\* files, record of the call, and messages
ExportData(lay, inp, oldPath, oldFs, oldJsons) ==
    IF ~inp.shp.set
    THEN [path |-> ExportedPath(inp, oldPath), fs |-> oldFs, jsons |-> oldJsons,
          export |-> NoExport,
          msgs |-> <<"critical: No save path provided for shapefile.">>]
    ELSE IF ~inp.writerOk
    THEN [path |-> ExportedPath(inp, oldPath), fs |-> oldFs, jsons |-> oldJsons,
          export |-> NoExport,
          msgs |-> <<"critical: Export error">>]
    ELSE
      LET dir == inp.shp.dir
          base == inp.shp.base
          fs1 == oldFs \cup {File(dir, base, sfx) : sfx \in WrittenSuffixes(inp.prj)}
          client == FinalText(inp.client, DefaultOf(lay, "CLIENT_NAME"))
          farm == FinalText(inp.farm, DefaultOf(lay, "FARM_NAME"))
          accepted == inp.next /\ MetaValid(client, farm)
          metadata == IF accepted THEN Metadata(client, farm)
                      ELSE Metadata(<<"-", "-">>, <<"-", "-">>)
          json == File(dir, base, JsonSuffix)
          fs2 == fs1 \cup {json}
          jsons2 == [f \in (DOMAIN oldJsons) \cup {json} |->
                        IF f = json THEN metadata ELSE oldJsons[f]]
          dialogMsgs == IF inp.next /\ ~MetaValid(client, farm)
                        THEN <<"critical: Client and Farm cannot be empty.">>
                        ELSE <<>>
          before == <<"information: Shapefile exported.">> \o dialogMsgs
                        \o <<"information: Metadata JSON created.">>
          members == {Basename(File(dir, base, ext)) :
                        ext \in {e \in ZipExts : File(dir, base, e) \in fs2}}
                     \cup (IF json \in fs2 THEN {Basename(json)} ELSE {})
      IN  IF ~inp.zip
          THEN [path |-> ExportedPath(inp, oldPath), fs |-> fs2, jsons |-> jsons2,
                export |-> [events |-> <<"shp", "json">>, zip |-> {}, zipped |-> FALSE,
                            written |-> lay],
                msgs |-> before \o <<"critical: No save path provided for ZIP.">>]
          ELSE [path |-> ExportedPath(inp, oldPath), fs |-> fs2, jsons |-> jsons2,
                export |-> [events |-> <<"shp", "json", "zip">>, zip |-> members,
                            zipped |-> TRUE, written |-> lay],
                msgs |-> before \o <<"information: ZIP archive created">>]

ClearGroups_None(lay) == lay

\* clearGroupBeforeTerminate
ClearGroups(lay) == [i \in 1..Len(lay) |-> [lay[i] EXCEPT !.GROUPE = E]]

\* the name terminateAndClearGroup gives the layer
NewName(path) == path.base

terminateAndClearGroup(inp) ==
    /\ dlg = "ready"
    /\ lastOp' = "terminateAndClearGroup"
    /\ IF layerRef = "live"
       THEN LET res == ExportData(ClearGroups(layer), inp, exported_shp_path, fs, jsons)
            IN  /\ layer' = ClearGroups(layer)
                /\ exported_shp_path' = res.path
                /\ fs' = res.fs
                /\ jsons' = res.jsons
                /\ lastExport' = res.export
                /\ IF res.path.set
                   THEN /\ layerName' = NewName(res.path)
                        /\ msgs' = res.msgs \o <<"information: Working layer renamed">>
                   ELSE /\ msgs' = res.msgs
                        /\ UNCHANGED layerName
                /\ btnNewProcess' = TRUE
                /\ exc' = ""
       ELSE /\ exc' = DeletedLayerError
            /\ msgs' = <<>>
            /\ UNCHANGED <<layer, layerName, btnNewProcess, exportVars>>
    /\ UNCHANGED <<hostVars, dlg, layerRef, nextFid, layerSel, tableVars, lastMergeBackup, snap, edits>>

(***************************************************************************)
(* newProcess                                                              *)
(***************************************************************************)
\* loadTable's setRowCount(n) on a table with the selection sel: the rows
\* that stay selected
KeptSel(sel, n) == SelectSeq(sel, LAMBDA r : r <= n)

LoadedBtn_Enabled == TRUE

\* btnNewProcess.setEnabled(False) once the new layer is loaded
LoadedBtn == FALSE

newProcess(reply, zip) ==
    /\ dlg = "ready"
    /\ btnNewProcess
    /\ lastOp' = "newProcess"
    /\ exc' = ""
    /\ IF reply # "Yes"
       THEN /\ msgs' = <<"question: Confirm New Process">>
            /\ UNCHANGED <<layerVars, tableVars, btnNewProcess, project, layerGen>>
       ELSE IF ExtractError(zip) # ""
       THEN \* the old layer is already removed from the project
            /\ layerRef' = "deleted"
            /\ project' = RemoveMapLayer(project, layerGen)
            /\ layer' = <<>>
            /\ layerSel' = {}
            /\ msgs' = IF zip.picked
                       THEN <<"question: Confirm New Process", ExtractError(zip)>>
                       ELSE <<"question: Confirm New Process">>
            /\ UNCHANGED <<nextFid, layerName, tableVars, btnNewProcess, layerGen>>
       ELSE LET kept == KeptSel(tableSel, zip.n)
                rerun == kept # tableSel /\ ~sigBlocked
            IN  /\ layerRef' = "live"
                /\ layerGen' = layerGen + 1
                /\ project' = AddMapLayer(RemoveMapLayer(project, layerGen), layerGen')
                /\ layer' = ImportLayer(zip)
                /\ nextFid' = zip.n + 1
                /\ layerName' = "Working Layer"
                \* dropping selected rows runs highlightFeature, on the new
                \* layer and with the feat_ids of the old one
                /\ layerSel' = IF rerun THEN HighlightLayerSel(kept, feat_ids) ELSE {}
                /\ tableSel' = IF rerun THEN HighlightTableSel(kept, feat_ids) ELSE kept
                /\ rows' = LoadRows(layer')
                /\ feat_ids' = LoadIds(layer')
                /\ btnNewProcess' = LoadedBtn
                /\ msgs' = <<"question: Confirm New Process",
                             "information: New process loaded successfully.">>
                /\ UNCHANGED sigBlocked
    /\ UNCHANGED <<dlg, lastMergeBackup, exportVars, snap, edits, pluginIsActive, dockVars>>

(***************************************************************************)
(* The dock widget: closeEvent and run                                     *)
(***************************************************************************)
\* the dock widget is closed: closingPlugin runs onClosePlugin
closeEvent ==
    /\ dlg = "ready"
    /\ pluginIsActive
    /\ pluginIsActive' = FALSE
    /\ dockShown' = FALSE
    /\ lastOp' = "closeEvent"
    /\ msgs' = <<>>
    /\ exc' = ""
    /\ UNCHANGED <<dlg, layerVars, tableVars, lastMergeBackup, btnNewProcess, exportVars,
                   snap, edits, project, layerGen, dockwidget, dockWidgets>>

\* the toolbar action after its first activation: it does nothing while the
\* plugin is active, and shows the dock widget it has when the plugin is not
run ==
    /\ dlg # "unbuilt"
    /\ IF pluginIsActive
       THEN UNCHANGED <<pluginIsActive, dockShown>>
       ELSE /\ pluginIsActive' = TRUE
            /\ dockwidget = "widget"
            /\ dockShown' = TRUE
    /\ lastOp' = "run"
    /\ msgs' = <<>>
    /\ exc' = ""
    /\ UNCHANGED <<dlg, layerVars, tableVars, lastMergeBackup, btnNewProcess, exportVars,
                   snap, edits, project, layerGen, dockwidget, dockWidgets>>

(***************************************************************************)
(* The upload script (plugin_upload.py)                                    *)
(***************************************************************************)
\* characters of a password given on the command line or typed at the prompt
MaxPassword == 2

PROTOCOL == <<"h", "t", "t", "p", "s">>

ENDPOINT == <<"/", "p", "l", "u", "g", "i", "n", "s", "/", "R", "P", "C", "2", "/">>

\* str.find(ch, start): the lowest index from start on that holds ch, or -1;
\* indexes count from 0
Find(s, ch, start) ==
    LET hits == {i \in start..(Len(s) - 1) : s[i + 1] = ch}
    IN  IF hits = {} THEN -1 ELSE CHOOSE i \in hits : \A j \in hits : i <= j

\* the position a slice bound stands for: a negative bound counts from the end
SliceBound(s, k) ==
    IF k < 0 THEN (IF Len(s) + k < 0 THEN 0 ELSE Len(s) + k)
    ELSE IF k > Len(s) THEN Len(s) ELSE k

\* s[:k]
SliceTo(s, k) == SubSeq(s, 1, SliceBound(s, k))

\* s[k:]
SliceFrom(s, k) == SubSeq(s, SliceBound(s, k) + 1, Len(s))

\* '*' * n, empty when n is not positive
Stars(n) == [i \in 1..n |-> "*"]

\* hide_password(url, start)
hide_password(url, start) ==
    LET start_position == Find(url, ":", start) + 1
        end_position == Find(url, "@", 0)
    IN  SliceTo(url, start_position) \o Stars(end_position - start_position)
            \o SliceFrom(url, end_position)

\* the address main builds from its parameters
Address(par) ==
    PROTOCOL \o <<":", "/", "/">> \o par.username \o <<":">> \o par.password
        \o <<"@">> \o par.server \o <<":">> \o par.port \o ENDPOINT

\* the url of a ProtocolError: the host part of the address and the handler
ErrorUrl(par) ==
    par.username \o <<":">> \o par.password \o <<"@">> \o par.server \o <<":">>
        \o par.port \o ENDPOINT

\* a printed line: its fixed text and the formatted value
Line(label, text) == [label |-> label, text |-> text]

\* the outcomes of server.plugin.upload
UploadOutcomes == {"uploaded", "ProtocolError", "Fault"}

\* main(parameters, arguments) with the outcome of the upload
main(outcome) ==
    /\ printed = <<>>
    /\ address' = Address(parameters)
    /\ printed' =
          <<Line("Connecting to: ", hide_password(address', 6))>>
          \o (CASE outcome = "uploaded" -> <<Line("Plugin ID: ", E), Line("Version ID: ", E)>>
                [] outcome = "ProtocolError" ->
                     <<Line("A protocol error occurred", E),
                       Line("URL: ", hide_password(ErrorUrl(parameters), 0))>>
                [] outcome = "Fault" -> <<Line("A fault occurred", E)>>)
    /\ UNCHANGED <<parameters, panelVars>>

(***************************************************************************)
(* Specifications                                                          *)
(***************************************************************************)
\* a handler run in a session that does not count its handlers
Free(A) == A /\ UNCHANGED <<steps, uploadVars>>

\* a handler run from the panel, which takes clicks while the dock widget is shown
Shown(A) == pluginIsActive /\ A

\* a handler run in a session of at most MaxSteps handlers
Counted(A) == steps < MaxSteps /\ steps' = steps + 1 /\ A /\ UNCHANGED uploadVars

\* the merge panel: a polygon layer is imported, cells are typed into, and the
\* layer is saved, merged and un-merged
MergeZips == {Shapefile("Polygon", TRUE, MaxFeatures, 1, FALSE)}

MergeTexts(col) ==
    CASE col = "CLIENT_NAME" -> {<<"c">>}
      [] col = "FARM_NAME" -> {<<"a">>}
      [] col = "FIELD_NAME" -> {}
      [] col = "GROUPE" -> {<<"g">>, <<"g", " ">>}

NextMerge ==
    \/ \E zip \in MergeZips : Free(Construct(zip))
    \/ \E r \in 1..MaxFeatures, col \in Columns : \E t \in MergeTexts(col) : Free(EditCell(r, col, t))
    \/ Free(saveEdits)
    \/ Free(mergeGroups)
    \/ \E reply \in Replies : Free(undoMerge(reply))

SpecMerge == Init /\ [][NextMerge]_vars

\* merging with groups of every size: cells are typed into and the layer is
\* merged, the typed texts being saved by mergeGroups itself
FrameTexts(col) ==
    CASE col = "CLIENT_NAME" -> {}
      [] col = "FARM_NAME" -> {}
      [] col = "FIELD_NAME" -> {}
      [] col = "GROUPE" -> {<<"g">>, <<"h">>, <<" ">>}

NextFrame ==
    \/ \E zip \in MergeZips : Free(Construct(zip))
    \/ \E r \in 1..MaxFeatures, col \in Columns : \E t \in FrameTexts(col) : Free(EditCell(r, col, t))
    \/ Free(mergeGroups)

SpecFrame == Init /\ [][NextFrame]_vars

\* the export: a layer is imported, client and farm names are given, and the
\* layer is terminated with every outcome of the export dialogs
ExportZips == {Shapefile("Polygon", TRUE, MaxFeatures - 1, 1, FALSE)}

ExportPaths == {ShpPath("out", "f1")}

ClientInputs == {Keep, <<" ">>, <<"c">>}

FarmInputs == {Keep}

\* one input for each way exportData gives up early, and every way it goes on
ExportInputs ==
    {ExportInput(NoPath, FALSE, FALSE, Keep, Keep, FALSE, FALSE)}
    \cup {ExportInput(shp, FALSE, FALSE, Keep, Keep, FALSE, FALSE) : shp \in ExportPaths}
    \cup {ExportInput(shp, TRUE, prj, c, f, nx, z) :
            shp \in ExportPaths, prj \in BOOLEAN, c \in ClientInputs, f \in FarmInputs,
            nx \in BOOLEAN, z \in BOOLEAN}

ExportTexts(col) ==
    CASE col = "CLIENT_NAME" -> {<<"c">>, <<"d">>}
      [] col = "FARM_NAME" -> {<<"a">>}
      [] col = "FIELD_NAME" -> {}
      [] col = "GROUPE" -> {}

NextExport ==
    \/ \E zip \in ExportZips : Free(Construct(zip))
    \/ \E r \in 1..MaxFeatures, col \in Columns : \E t \in ExportTexts(col) : Free(EditCell(r, col, t))
    \/ Free(saveEdits)
    \/ \E inp \in ExportInputs : Free(terminateAndClearGroup(inp))

SpecExport == Init /\ [][NextExport]_vars

\* the whole panel, with few texts: every handler of the dialog
PanelZips ==
    {Shapefile("Polygon", TRUE, MaxFeatures - 1, 2, FALSE),
     Shapefile("Polygon", FALSE, MaxFeatures - 1, 1, TRUE),
     Shapefile("Line", TRUE, MaxFeatures - 1, 1, FALSE)}

PanelTexts(col) ==
    CASE col = "CLIENT_NAME" -> {}
      [] col = "FARM_NAME" -> {}
      [] col = "FIELD_NAME" -> {}
      [] col = "GROUPE" -> {<<"g">>}

PanelExports ==
    {ExportInput(NoPath, FALSE, FALSE, Keep, Keep, FALSE, FALSE),
     ExportInput(ShpPath("out", "f1"), FALSE, FALSE, Keep, Keep, FALSE, FALSE),
     ExportInput(ShpPath("out", "f1"), TRUE, TRUE, Keep, Keep, TRUE, TRUE)}

Next ==
    \/ \E zip \in PanelZips \cup BadZips \cup {NoZip} : Counted(Construct(zip))
    \/ \E r \in 1..MaxFeatures, col \in Columns : \E t \in PanelTexts(col) : Counted(Shown(EditCell(r, col, t)))
    \/ Counted(Shown(saveEdits))
    \/ \E r \in 1..MaxFeatures : Counted(Shown(TableClick(r)))
    \/ \E fids \in SUBSET Ids(layer) : Counted(MapSelect(fids))
    \/ \E fid \in Ids(layer) : Counted(LayerToggle(fid))
    \/ Counted(Shown(applyGlobalValues(<<"c">>, <<"a">>)))
    \/ \E name \in {E, <<"g">>}, ok \in BOOLEAN : Counted(Shown(assignGroup(name, ok)))
    \/ Counted(Shown(mergeGroups))
    \/ \E reply \in Replies : Counted(Shown(undoMerge(reply)))
    \/ \E inp \in PanelExports : Counted(Shown(terminateAndClearGroup(inp)))
    \/ \E reply \in Replies, zip \in PanelZips \cup BadZips \cup {NoZip} : Counted(Shown(newProcess(reply, zip)))
    \/ Counted(closeEvent)
    \/ Counted(run)

Spec == Init /\ [][Next]_vars

\* the upload script: main is called once with the options of one command line
UserNames == {<<"u">>, <<"u", "v">>, <<"u", ":">>, <<"u", "@">>}

PasswordChars == {"p", ":", "@"}

Passwords == UNION {[1..n -> PasswordChars] : n \in 0..MaxPassword}

UploadParameters ==
    {[username |-> u, password |-> w, server |-> <<"q">>, port |-> <<"4">>] :
        u \in UserNames, w \in Passwords}

InitUpload ==
    /\ InitPanel
    /\ parameters \in UploadParameters
    /\ address = E
    /\ printed = <<>>

NextUpload == \E outcome \in UploadOutcomes : main(outcome)

SpecUpload == InitUpload /\ [][NextUpload]_vars

(***************************************************************************)
(* Properties                                                              *)
(***************************************************************************)
UndoneMsgs == <<"question: Confirm Undo", "information: Last merge undone.">>

\* the group keys of the last merge that had two or more members
MergedGroups == {g \in {GroupKey(snap[i]) : i \in 1..Len(snap)} :
                    g # E /\ Len(Members(snap, g)) >= 2}

\* the features the last merge added
NewFeatures == {layer[i] : i \in {k \in 1..Len(layer) : layer[k].id \notin Ids(snap)}}

\* Python's order on str: by code point, a proper prefix first
RECURSIVE TextLeq(_, _)
TextLeq(a, b) ==
    IF a = E THEN TRUE
    ELSE IF b = E THEN FALSE
    ELSE IF Head(a) = Head(b) THEN TextLeq(Tail(a), Tail(b))
    ELSE Ord(Head(a)) < Ord(Head(b))

RECURSIVE InsertSorted(_, _)
InsertSorted(t, sorted) ==
    IF sorted = <<>> THEN <<t>>
    ELSE IF TextLeq(t, Head(sorted)) THEN <<t>> \o sorted
    ELSE <<Head(sorted)>> \o InsertSorted(t, Tail(sorted))

RECURSIVE SortTexts(_)
SortTexts(ts) == IF ts = <<>> THEN <<>> ELSE InsertSorted(Head(ts), SortTexts(Tail(ts)))

\* C1: a confirmed undoMerge leaves the layer with exactly the features (the
\* five attributes and the geometry of each, ids aside) that the last
\* mergeGroups saw after its saveEdits and before it deleted any feature.
C1_UndoRestoresSnapshot ==
    (lastOp = "undoMerge" /\ msgs = UndoneMsgs) => SameFeatures(layer, snap)

\* an undo was confirmed after a merge that had merged a group
C1_Witness ==
    /\ lastOp = "undoMerge"
    /\ msgs = UndoneMsgs
    /\ MergedGroups # {}
    /\ Len(layer) = MaxFeatures

\* C2: undo is single-level.  The backup, when there is one, is the clones of
\* what the most recent mergeGroups saw; every mergeGroups overwrites it; a
\* confirmed undo restores it and clears it; an undoMerge with no backup
\* leaves the layer as it is and only says "No merge to undo."
C2_SingleLevelUndo ==
    /\ [](BackupTruthy(lastMergeBackup) =>
            lastMergeBackup.feats = [i \in 1..Len(snap) |-> Attrs(snap[i])])
    /\ [][lastOp' = "mergeGroups" =>
            lastMergeBackup' = Backup([i \in 1..Len(snap') |-> Attrs(snap'[i])])]_vars
    /\ [][(lastOp' = "undoMerge" /\ msgs' = UndoneMsgs) =>
            /\ SameFeatures(layer', lastMergeBackup.feats)
            /\ lastMergeBackup' = NoBackup]_vars
    /\ [][(lastOp' = "undoMerge" /\ ~BackupTruthy(lastMergeBackup)) =>
            /\ layer' = layer
            /\ msgs' = <<"information: No merge to undo.">>]_vars

\* a second undoMerge, after a merge that merged a group was undone
C2_Witness ==
    /\ lastOp = "undoMerge"
    /\ msgs = <<"information: No merge to undo.">>
    /\ MergedGroups # {}
    /\ lastMergeBackup = NoBackup

\* C3: the merged feature's FIELD_NAME is the non-empty FIELD_NAME values of
\* the group's members, sorted, joined with "-".
C3_SortedFieldNames ==
    lastOp = "mergeGroups" =>
        \A g \in MergedGroups :
            \A f \in NewFeatures :
                f.GROUPE = g =>
                    f.FIELD_NAME = Join(<<"-">>, SortTexts(FieldNames(Members(snap, g))))

\* the features of snap that carry exactly the GROUPE text v
Carriers(v) == SelectSeq(snap, LAMBDA f : f.GROUPE = v)

\* the union of the geometries of a sequence of features
UnionCells(feats) == UNION {feats[i].geom.cells : i \in 1..Len(feats)}

C5_FirstMemberOwns ==
    lastOp = "mergeGroups" =>
        \A g \in MergedGroups :
            \A f \in NewFeatures :
                f.GROUPE = g =>
                    /\ f.CLIENT_NAME = Members(snap, g)[1].CLIENT_NAME
                    /\ f.FARM_NAME = Members(snap, g)[1].FARM_NAME

\* a merge of a group whose first member has a client and whose last has none
C5_Witness ==
    /\ lastOp = "mergeGroups"
    /\ \E g \in MergedGroups :
            LET m == Members(snap, g)
            IN  /\ m[1].CLIENT_NAME = <<"c">>
                /\ m[Len(m)].CLIENT_NAME = E

C7_MetadataKeys ==
    \A f \in DOMAIN jsons :
        /\ DOMAIN jsons[f] = {"Version", "ClientName", "FarmName", "ShapeDataType"}
        /\ jsons[f].Version = "1.0"
        /\ jsons[f].ShapeDataType = "Boundary"

\* a metadata file written after the metadata dialog was dismissed
C7_Witness ==
    /\ lastOp = "terminateAndClearGroup"
    /\ \E f \in DOMAIN jsons : jsons[f].ClientName = <<"-", "-">>

\* C8: a ZIP is written only after the shapefile and then the metadata JSON
\* were written, and holds the metadata JSON and those of the .shp, .shx,
\* .dbf and .prj files that exist for the exported base name, each under its
\* base file name, and nothing else.
C8_ZipAfterShpAndJson ==
    lastExport.zipped =>
        /\ lastExport.events = <<"shp", "json", "zip">>
        /\ exported_shp_path.set
        /\ LET dir == exported_shp_path.dir
               base == exported_shp_path.base
           IN  /\ <<dir, base, ".shp">> \in fs
               /\ <<dir, base, "-Deere-Metadata.json">> \in fs
               /\ lastExport.zip =
                    {<<base, "-Deere-Metadata.json">>}
                    \cup {<<base, ext>> : ext \in {e \in {".shp", ".shx", ".dbf", ".prj"} :
                                                    <<dir, base, e>> \in fs}}

\* a ZIP written when no .prj exists for the base name
C8_Witness ==
    /\ lastExport.zipped
    /\ <<exported_shp_path.base, ".prj">> \notin lastExport.zip
    /\ <<exported_shp_path.dir, exported_shp_path.base, ".cpg">> \in fs

\* the export inputs with which the shapefile is not written
FailedInputs == {inp \in ExportInputs : ~inp.shp.set \/ ~inp.writerOk}

\* C9: when no shapefile path is given or the writer returns an error,
\* exportData shows an error dialog first, writes no metadata JSON and no
\* ZIP, leaves exported_shp_path as it was, and asks nothing again.
C9_FailedExportStops ==
    [][\A inp \in FailedInputs :
          terminateAndClearGroup(inp) =>
              /\ msgs' # <<>>
              /\ msgs'[1] = (IF inp.shp.set THEN "critical: Export error"
                             ELSE "critical: No save path provided for shapefile.")
              /\ \A k \in 2..Len(msgs') : msgs'[k] = "information: Working layer renamed"
              /\ fs' = fs
              /\ jsons' = jsons
              /\ lastExport' = NoExport
              /\ exported_shp_path' = exported_shp_path]_vars

\* a terminate whose writer failed, before any export had succeeded
C9_Witness ==
    /\ lastOp = "terminateAndClearGroup"
    /\ msgs = <<"critical: Export error">>
    /\ ~exported_shp_path.set
    /\ fs = {}

\* C10: when the import at construction fails, the failure is reported by an
\* error dialog and construction completes, no later step of __init__ having
\* touched the layer that was never created.
C10_FailedImportCompletes ==
    (lastOp = "__init__" /\ msgs # <<>>) => (dlg = "ready" /\ exc = "")


LoadedMsgs == <<"question: Confirm New Process",
                "information: New process loaded successfully.">>

C12_CloseDiscardsLayer ==
    lastOp = "closeEvent" => layerGen \notin project


\* C13: when terminateAndClearGroup returns, every feature of the working
\* layer has an empty GROUPE, whether the export succeeded, failed or was
\* cancelled, and the features written to the shapefile are those of the
\* cleared layer: none carries a group.
C13_GroupsCleared ==
    (lastOp = "terminateAndClearGroup" /\ exc = "") =>
        /\ \A i \in 1..Len(layer) : layer[i].GROUPE = E
        /\ \A i \in 1..Len(lastExport.written) : lastExport.written[i].GROUPE = E
        /\ lastExport.events # <<>> => lastExport.written = layer

\* a layer exported after a group of it was merged: the merged feature had
\* the group's tag until the terminate
C13_Witness ==
    /\ lastOp = "terminateAndClearGroup"
    /\ lastExport.events # <<>>
    /\ \E i \in 1..Len(lastExport.written) :
            /\ lastExport.written[i].FIELD_NAME = <<"B", "-", "A">>
            /\ lastExport.written[i].id \notin Ids(snap)


\* the features of the selected table rows
ShownSelected == {feat_ids[tableSel[k]] : k \in 1..Len(tableSel)}

\* C14: after highlightFeature and the callbacks it triggers have completed,
\* and after onMapSelectionChanged has handled a change of the layer's
\* selection, the features selected on the working layer are exactly the
\* features of the selected table rows.
C14_SelectionSynchronized ==
    (lastOp \in {"highlightFeature", "onMapSelectionChanged"} /\ exc = "") =>
        layerSel = ShownSelected


\* a text with a character that is not a space
NonBlank(t) == \E k \in 1..Len(t) : t[k] # " "

\* C15: in every metadata file written, ClientName and FarmName are either
\* both "--" or both texts that are not blank; neither is ever empty or made
\* of spaces only.
C15_NamesNeverBlank ==
    \A f \in DOMAIN jsons :
        \/ jsons[f].ClientName = <<"-", "-">> /\ jsons[f].FarmName = <<"-", "-">>
        \/ /\ NonBlank(jsons[f].ClientName) /\ NonBlank(jsons[f].FarmName)
           /\ jsons[f].ClientName # <<"-", "-">>
           /\ jsons[f].FarmName # <<"-", "-">>

\* an export whose metadata dialog was accepted with a client and a farm
C15_Witness ==
    /\ lastOp = "terminateAndClearGroup"
    /\ \E f \in DOMAIN jsons : jsons[f].ClientName = <<"c">> /\ jsons[f].FarmName = <<"a">>
    /\ lastExport.events # <<>>
    /\ \A k \in 1..Len(msgs) : msgs[k] # "critical: Client and Farm cannot be empty."


RenamedMsg == "information: Working layer renamed"

\* C16: terminateAndClearGroup renames the working layer only when the export
\* of that same call wrote the shapefile, and then to the base name of the
\* path just exported; after a terminate whose export failed or was cancelled
\* no "renamed" message is shown, also when an earlier terminate had exported.
C16_RenameOnlyOnSuccess ==
    (lastOp = "terminateAndClearGroup" /\ exc = "") =>
        IF lastExport.events # <<>>
        THEN /\ layerName = exported_shp_path.base
             /\ \E k \in 1..Len(msgs) : msgs[k] = RenamedMsg
        ELSE \A k \in 1..Len(msgs) : msgs[k] # RenamedMsg


\* C17: the New Process button is disabled when the dialog is constructed and
\* whenever self.layer is given a new layer; it is enabled by every
\* terminateAndClearGroup and by nothing else; newProcess runs only while it
\* is enabled, so only on a working layer that has been terminated.
C17_NewProcessButton ==
    /\ []((lastOp = "__init__" /\ dlg = "ready") => ~btnNewProcess)
    /\ [][lastOp' = "terminateAndClearGroup" => btnNewProcess']_vars
    /\ [][(lastOp' = "newProcess" /\ msgs' = LoadedMsgs) => ~btnNewProcess']_vars
    /\ [][layerGen' # layerGen => ~btnNewProcess']_vars
    /\ [][(btnNewProcess' /\ ~btnNewProcess) => lastOp' = "terminateAndClearGroup"]_vars
    /\ [][lastOp' = "newProcess" => btnNewProcess]_vars

\* the button enabled again by a terminate of the second layer
C17_Witness ==
    /\ lastOp = "terminateAndClearGroup"
    /\ layerGen = 2
    /\ layerRef = "live"
    /\ btnNewProcess


\* C18: saveEdits writes the four cell texts of every table row i to
\* CLIENT_NAME, FARM_NAME, FIELD_NAME and GROUPE of the feature feat_ids[i]
\* and changes nothing else: the features, their ids, geometries and
\* POLYGONTYP, the table and feat_ids stay as they were, and a second
\* saveEdits would leave the layer as the first left it.
C18_SaveEditsFrame ==
    [][(lastOp' = "saveEdits" /\ exc' = "") =>
          /\ Len(layer') = Len(layer)
          /\ \A i \in 1..Len(layer) :
                /\ layer'[i].id = layer[i].id
                /\ layer'[i].geom = layer[i].geom
                /\ layer'[i].POLYGONTYP = layer[i].POLYGONTYP
          /\ \A r \in 1..Len(rows) :
                /\ \E i \in 1..Len(layer') : layer'[i].id = feat_ids[r]
                /\ \A i \in 1..Len(layer') :
                      layer'[i].id = feat_ids[r] =>
                          \A col \in Columns : layer'[i][col] = rows[r][col]
          /\ rows' = rows
          /\ feat_ids' = feat_ids
          /\ SaveEditsLayer(layer', rows', feat_ids') = layer']_vars

\* a save that has written a typed client and a typed group to the layer
C18_Witness ==
    /\ lastOp = "saveEdits"
    /\ \E i \in 1..Len(layer) : layer[i].CLIENT_NAME = <<"c">>
    /\ \E i \in 1..Len(layer) : layer[i].GROUPE = <<"g", " ">>


\* the rows applyGlobalValues is to write: the selected ones, or all when
\* none is selected
SelectedOrAll ==
    IF tableSel = <<>> THEN 1..Len(rows) ELSE {tableSel[k] : k \in 1..Len(tableSel)}

SelectedRows == {tableSel[k] : k \in 1..Len(tableSel)}

PluginState == <<dlg, layerVars, tableVars, lastMergeBackup, btnNewProcess, exportVars,
                 project, layerGen, pluginIsActive, dockVars>>

\* C21: over any sequence of toolbar activations and closes of the dock
\* widget, at most one dock widget is ever created, run while the plugin is
\* active has no effect, pluginIsActive is true exactly while the dock widget
\* is shown (from the run that showed it to the next close), and a run after
\* a close shows the same dock widget again.
C21_OneDockWidget ==
    /\ [](dockWidgets <= 1)
    /\ [][(run /\ pluginIsActive) => UNCHANGED PluginState]_vars
    /\ [](pluginIsActive <=> dockShown)
    /\ [][(run /\ ~pluginIsActive) =>
            (dockShown' /\ dockwidget' = dockwidget /\ dockWidgets' = dockWidgets)]_vars


\* the address with each character of the password replaced by an asterisk
Masked(par) ==
    PROTOCOL \o <<":", "/", "/">> \o par.username \o <<":">> \o Stars(Len(par.password))
        \o <<"@">> \o par.server \o <<":">> \o par.port \o ENDPOINT

\* C22: the "Connecting to" line that main prints shows the address with
\* every character of the password replaced by '*' and every other character
\* unchanged, so it has the length of the address, for every username and
\* password, those containing ':' or '@' included.
C22_PasswordMasked ==
    printed # <<>> =>
        /\ printed[1].label = "Connecting to: "
        /\ printed[1].text = Masked(parameters)


\* the layer holds one feature per feature of the input, in the input's order
\* and geometry, named by NOPAR when the input has that field
Imported(lay, zip) ==
    /\ Len(lay) = zip.n
    /\ \A i \in 1..zip.n :
          LET orig == OrigFeatures(zip)[i]
          IN  /\ lay[i].id = i
              /\ lay[i].geom = orig.geom
              /\ lay[i].CLIENT_NAME = E
              /\ lay[i].FARM_NAME = E
              /\ lay[i].GROUPE = E
              /\ lay[i].FIELD_NAME = (IF orig.hasNopar THEN orig.NOPAR ELSE E)
              /\ lay[i].POLYGONTYP = PolyType(orig.geom)

GroupsOfTwo(lay) ==
    {g \in {GroupKey(lay[i]) : i \in 1..Len(lay)} : g # E /\ Len(Members(lay, g)) >= 2}

\* the sum over the groups gs of (group size - 1)
RECURSIVE MergedAway(_, _)
MergedAway(lay, gs) ==
    IF gs = {} THEN 0
    ELSE LET g == CHOOSE x \in gs : TRUE
         IN  (Len(Members(lay, g)) - 1) + MergedAway(lay, gs \ {g})

\* what a merge leaves alone, between the layer before it and the layer after
MergeFrame(before, after) ==
    /\ \A i \in 1..Len(before) :
          GroupKey(before[i]) \notin GroupsOfTwo(before) =>
              \E j \in 1..Len(after) : after[j] = before[i]
    /\ Len(after) = Len(before) - MergedAway(before, GroupsOfTwo(before))
    /\ GroupsOfTwo(before) = {} => after = before

\* C24 as stated, on the layer as it is when mergeGroups is called: every
\* feature that is not in a group of two or more keeps its attributes and
\* geometry, the count drops by the sum of (group size - 1), and a layer
\* with no group of two or more is unchanged.
C24_AsStated ==
    [][(mergeGroups /\ exc' = "") => MergeFrame(layer, layer')]_vars

\* C24: on the layer as mergeGroups has saved it from the table, every
\* feature that is not in a group of two or more (its GROUPE empty or
\* whitespace-only, or carried by no other feature) keeps its id, attributes
\* and geometry, the feature count drops by the sum over the merged groups of
\* (group size - 1), and a layer with no group of two or more is unchanged.
C24_MergeFrame ==
    (lastOp = "mergeGroups" /\ exc = "") => MergeFrame(snap, layer)

\* a merge of one group next to a feature whose GROUPE is whitespace only
C24_Witness ==
    /\ lastOp = "mergeGroups"
    /\ exc = ""
    /\ \E j \in 1..Len(layer) : layer[j].id \notin Ids(snap) /\ layer[j].GROUPE = <<"g">>
    /\ \E i \in 1..Len(snap), j \in 1..Len(layer) :
          snap[i].GROUPE = <<" ">> /\ layer[j] = snap[i]
    /\ Len(layer) = Len(snap) - 1

=============================================================================
